---- MODULE Spec2Model ----
(***************************************************************************)
(* Incremental document ingestion of src/src/procesar_docs2.py.            *)
(*                                                                         *)
(* The filesystem objects the script names (DIR_DOCS, DIR_DB_FAISS,        *)
(* DIR_DB_TEMP, ARCHIVO_REGISTRO) are the persistent state; the locals of  *)
(* main() are the state of one run.  Every statement of main() that        *)
(* touches the filesystem is one action, so that an exception or an        *)
(* external interruption can fall between any two of them.                 *)
(*                                                                         *)
(* A file is identified by its path (a number in Paths) and a version by   *)
(* its modification time; the chunks that a version of a file contributes  *)
(* to the index are represented by the pair <<path, mtime>>.               *)
(***************************************************************************)
EXTENDS Integers, FiniteSets, Sequences, TLC

\* ---- bounds of the model ----
NumPaths == 2
MaxTime == 2
MaxRuns == 3
MaxEdits == 2
MaxLen == 5
MaxPages == 2
\* chunk_size and chunk_overlap, scaled down from 1000 and 200
ChunkSize == 3
ChunkOverlap == 1

Paths == 1..NumPaths
\* The characters of a page text, and the page texts
Alphabet == {"a", " ", "\n"}
Whitespace == {" ", "\n"}
Texts == UNION {[1..n -> Alphabet] : n \in 0..MaxLen}
Times == 1..MaxTime
Chunks == Paths \X Times

VARIABLES
    DIR_DOCS,            \* documents directory: exists, and path -> mtime
    DIR_DB_FAISS,        \* published index directory
    DIR_DB_TEMP,         \* staging index directory
    ARCHIVO_REGISTRO,    \* processed_files.json
    pc,                  \* position of main()
    registro_archivos,   \* local of main(): the in-memory record
    archivos_a_procesar, \* local of main(): the selected files
    chunks_nuevos,       \* local of main(): chunks of the loaded files
    db_final,            \* local of main(): the index being built
    cargados,            \* files of the batch that PyPDFLoader loaded
    pre,                 \* snapshot of the persistent state at run start
    falla,               \* the step of this run that raised, if any
    resultado,           \* how the last run that ended did end
    escrituras,          \* writes of ARCHIVO_REGISTRO in this run
    embed_calls,         \* chunks handed to the embedding backend in this run
    renombrado,          \* os.rename succeeded in this run
    limpiado,            \* DIR_DB_TEMP was removed by this run
    runs,                \* runs started
    edits,               \* filesystem edits made
    editado,             \* DIR_DOCS was edited since the last run started
    interrumpido,        \* some run so far was killed
    fallo_carga,         \* some run so far skipped a PDF it could not load
    paginas,             \* page texts handed to the text splitter
    trozos               \* the chunks the text splitter returned for them

vars == <<DIR_DOCS, DIR_DB_FAISS, DIR_DB_TEMP, ARCHIVO_REGISTRO, pc,
          registro_archivos, archivos_a_procesar, chunks_nuevos, db_final,
          cargados, pre, falla, resultado, escrituras, embed_calls,
          renombrado, limpiado, runs, edits, editado, interrumpido,
          fallo_carga, paginas, trozos>>

fsvars == <<DIR_DOCS, DIR_DB_FAISS, DIR_DB_TEMP, ARCHIVO_REGISTRO>>
locals == <<registro_archivos, archivos_a_procesar, chunks_nuevos, db_final,
            cargados>>
ghosts == <<pre, falla, escrituras, embed_calls, renombrado, limpiado>>
counters == <<runs, edits, editado, interrumpido, fallo_carga>>
textos == <<paginas, trozos>>

\* ---- values ----

\* A dict from paths to modification times: a function on a subset of Paths.
EmptyDict == [p \in {} |-> 1]
Dicts == UNION {[S -> Times] : S \in SUBSET Paths}
DictSet(d, k, v) == [x \in (DOMAIN d) \cup {k} |-> IF x = k THEN v ELSE d[x]]
DictDel(d, k) == [x \in (DOMAIN d) \ {k} |-> d[x]]

\* A directory holding a FAISS index: save_local writes index.faiss and then
\* index.pkl, so a directory that exists is complete or holds only a part.
NoDir == [exists |-> FALSE, chunks |-> {}, complete |-> FALSE]
IndexDir(c) == [exists |-> TRUE, chunks |-> c, complete |-> TRUE]
PartialDir(c) == [exists |-> TRUE, chunks |-> c, complete |-> FALSE]

\* processed_files.json: absent, a JSON object, or a file json.load rejects.
NoFile == [kind |-> "absent", data |-> EmptyDict]
JsonFile(d) == [kind |-> "ok", data |-> d]
BadFile == [kind |-> "bad", data |-> EmptyDict]

NoDocs == [exists |-> FALSE, files |-> EmptyDict]
DocsDir(d) == [exists |-> TRUE, files |-> d]

\* The snapshot before any run has started.
NoPre == [faiss |-> NoDir, temp |-> NoDir, registro |-> NoFile,
          previo |-> "none", editado |-> FALSE]

Init ==
    /\ DIR_DOCS \in {NoDocs} \cup {DocsDir(d) : d \in Dicts}
    /\ DIR_DB_FAISS = NoDir
    /\ DIR_DB_TEMP = NoDir
    /\ ARCHIVO_REGISTRO = NoFile
    /\ pc = "idle"
    /\ registro_archivos = EmptyDict
    /\ archivos_a_procesar = {}
    /\ chunks_nuevos = {}
    /\ db_final = {}
    /\ cargados = {}
    /\ pre = NoPre
    /\ falla = "none"
    /\ resultado = "none"
    /\ escrituras = 0
    /\ embed_calls = 0
    /\ renombrado = FALSE
    /\ limpiado = FALSE
    /\ runs = 0
    /\ edits = 0
    /\ editado = FALSE
    /\ interrumpido = FALSE
    /\ fallo_carga = FALSE
    /\ paginas = << >>
    /\ trozos = << >>

\* ---- helper functions of procesar_docs2.py ----

\* cargar_registro_archivos(): {} when the file does not exist, otherwise
\* json.load, which raises on a file that is not JSON.
cargar_registro_archivos(archivo) ==
    IF archivo.kind = "absent" THEN [raised |-> FALSE, value |-> EmptyDict]
    ELSE IF archivo.kind = "ok" THEN [raised |-> FALSE, value |-> archivo.data]
    ELSE [raised |-> TRUE, value |-> EmptyDict]

\* Variant of the loop that also selects a file whose modification time
\* equals the recorded one (<= for <).
RECURSIVE obtener_loop_le(_, _, _, _)
obtener_loop_le(pend, files, registro, archivos_nuevos) ==
    IF pend = {} THEN [archivos |-> archivos_nuevos, registro |-> registro]
    ELSE LET nombre_archivo == CHOOSE x \in pend : TRUE
             ultima_modificacion == files[nombre_archivo]
         IN IF \/ nombre_archivo \notin DOMAIN registro
               \/ registro[nombre_archivo] <= ultima_modificacion
            THEN obtener_loop_le(pend \ {nombre_archivo}, files,
                                 DictSet(registro, nombre_archivo, ultima_modificacion),
                                 archivos_nuevos \cup {nombre_archivo})
            ELSE obtener_loop_le(pend \ {nombre_archivo}, files, registro,
                                 archivos_nuevos)

\* The for loop of obtener_archivos_a_procesar over DIR_DOCS.glob("*.pdf"):
\* pend are the files still to visit.
RECURSIVE obtener_loop(_, _, _, _)
obtener_loop(pend, files, registro, archivos_nuevos) ==
    IF pend = {} THEN [archivos |-> archivos_nuevos, registro |-> registro]
    ELSE LET nombre_archivo == CHOOSE x \in pend : TRUE
             ultima_modificacion == files[nombre_archivo]
         IN IF \/ nombre_archivo \notin DOMAIN registro
               \/ registro[nombre_archivo] < ultima_modificacion
            THEN obtener_loop(pend \ {nombre_archivo}, files,
                              DictSet(registro, nombre_archivo, ultima_modificacion),
                              archivos_nuevos \cup {nombre_archivo})
            ELSE obtener_loop(pend \ {nombre_archivo}, files, registro,
                              archivos_nuevos)

\* Variant that selects the files but does not record their modification
\* times (line 51 left out).
obtener_archivos_sin_registrar(docs, registro) ==
    IF ~docs.exists THEN [archivos |-> {}, registro |-> registro]
    ELSE [archivos |-> obtener_loop(DOMAIN docs.files, docs.files, registro, {}).archivos,
          registro |-> registro]

\* Variant that rebuilds the record from the files now in DIR_DOCS, dropping
\* the entries of paths that are no longer there.
obtener_archivos_podando(docs, registro) ==
    IF ~docs.exists THEN [archivos |-> {}, registro |-> registro]
    ELSE LET r == obtener_loop(DOMAIN docs.files, docs.files, registro, {})
         IN [archivos |-> r.archivos,
             registro |-> [x \in (DOMAIN r.registro) \cap (DOMAIN docs.files)
                              |-> r.registro[x]]]

\* obtener_archivos_a_procesar(registro): the selected files and the record
\* as the call leaves it.
obtener_archivos_a_procesar(docs, registro) ==
    IF ~docs.exists THEN [archivos |-> {}, registro |-> registro]
    ELSE obtener_loop(DOMAIN docs.files, docs.files, registro, {})

\* Variant without the try/except of lines 59-65: one file that fails to
\* load leaves the batch without documents.
procesar_lote_abortando(rutas_archivos, ok, docs) ==
    IF rutas_archivos \subseteq ok
    THEN {<<ruta, docs.files[ruta]>> : ruta \in rutas_archivos}
    ELSE {}

\* procesar_lote_documentos(rutas_archivos): the chunks of the files that
\* PyPDFLoader loads (ok); a file that fails to load is skipped.
procesar_lote_documentos(rutas_archivos, ok, docs) ==
    {<<ruta, docs.files[ruta]>> : ruta \in rutas_archivos \cap ok}

\* FAISS.from_documents(chunks_nuevos, embeddings)
from_documents(chunks) == chunks

\* FAISS.load_local(DIR_DB_FAISS) followed by add_documents(chunks_nuevos):
\* the new chunks are appended to what the index already holds.
add_documents(db_existente, chunks) == db_existente \cup chunks

\* ---- main() ----

\* main() returns or the process ends: the locals of main() are gone.
Return(r) ==
    /\ pc' = "idle"
    /\ resultado' = r
    /\ registro_archivos' = EmptyDict
    /\ archivos_a_procesar' = {}
    /\ chunks_nuevos' = {}
    /\ db_final' = {}
    /\ cargados' = {}

Raise(f) ==
    /\ pc' = "except"
    /\ falla' = f
    /\ UNCHANGED resultado

\* line 85: registro_archivos = cargar_registro_archivos(); an exception
\* here is outside the try block and ends the process.
main_cargar ==
    /\ pc = "idle"
    /\ runs < MaxRuns
    /\ runs' = runs + 1
    /\ editado' = FALSE
    /\ pre' = [faiss |-> DIR_DB_FAISS, temp |-> DIR_DB_TEMP,
               registro |-> ARCHIVO_REGISTRO, previo |-> resultado,
               editado |-> editado]
    /\ falla' = "none"
    /\ escrituras' = 0
    /\ embed_calls' = 0
    /\ renombrado' = FALSE
    /\ limpiado' = FALSE
    /\ archivos_a_procesar' = {}
    /\ chunks_nuevos' = {}
    /\ db_final' = {}
    /\ cargados' = {}
    /\ LET r == cargar_registro_archivos(ARCHIVO_REGISTRO)
       IN /\ registro_archivos' = r.value
          /\ IF r.raised THEN Return("crash")
             ELSE pc' = "obtener" /\ UNCHANGED resultado
    /\ UNCHANGED <<fsvars, edits, interrumpido, fallo_carga>>
    /\ UNCHANGED textos

\* line 86: archivos_a_procesar = obtener_archivos_a_procesar(registro_archivos)
main_obtener ==
    /\ pc = "obtener"
    /\ LET r == obtener_archivos_a_procesar(DIR_DOCS, registro_archivos)
       IN /\ archivos_a_procesar' = r.archivos
          /\ registro_archivos' = r.registro
    /\ pc' = "check"
    /\ UNCHANGED <<fsvars, chunks_nuevos, db_final, cargados, ghosts,
                   counters, resultado>>
    /\ UNCHANGED textos

\* Variant of the early return that does not ask whether an index exists.
main_check_sin_exists ==
    /\ pc = "check"
    /\ IF archivos_a_procesar = {}
       THEN Return("nochanges")
       ELSE pc' = "lote" /\ UNCHANGED <<resultado, locals>>
    /\ UNCHANGED <<fsvars, ghosts, counters>>
    /\ UNCHANGED textos

\* lines 88-90: nothing to do and an index exists
main_check ==
    /\ pc = "check"
    /\ IF archivos_a_procesar = {} /\ DIR_DB_FAISS.exists
       THEN Return("nochanges")
       ELSE pc' = "lote" /\ UNCHANGED <<resultado, locals>>
    /\ UNCHANGED <<fsvars, ghosts, counters>>
    /\ UNCHANGED textos

\* line 95: chunks_nuevos = procesar_lote_documentos(archivos_a_procesar);
\* each file of the batch loads or raises inside the loop.
main_lote ==
    /\ pc = "lote"
    /\ \E ok \in SUBSET archivos_a_procesar :
          /\ cargados' = ok
          /\ chunks_nuevos' = procesar_lote_documentos(archivos_a_procesar, ok, DIR_DOCS)
          /\ fallo_carga' = (fallo_carga \/ ok # archivos_a_procesar)
    /\ pc' = "embeddings"
    /\ UNCHANGED <<fsvars, registro_archivos, archivos_a_procesar, db_final,
                   ghosts, runs, edits, editado, interrumpido, resultado>>
    /\ UNCHANGED textos

\* line 97: embeddings = HuggingFaceEmbeddings(...); raises when the
\* embedding backend cannot be set up.
main_embeddings ==
    /\ pc = "embeddings"
    /\ \/ pc' = "rmtemp" /\ UNCHANGED <<falla, resultado>>
       \/ Raise("embedding")
    /\ UNCHANGED <<fsvars, locals, pre, escrituras, embed_calls, renombrado,
                   limpiado, counters>>
    /\ UNCHANGED textos

\* lines 100-101: remove the staging directory of an earlier run
main_rmtemp ==
    /\ pc = "rmtemp"
    /\ IF DIR_DB_TEMP.exists
       THEN DIR_DB_TEMP' = NoDir /\ limpiado' = TRUE
       ELSE UNCHANGED <<DIR_DB_TEMP, limpiado>>
    /\ pc' = "build"
    /\ UNCHANGED <<DIR_DOCS, DIR_DB_FAISS, ARCHIVO_REGISTRO, locals, pre,
                   falla, escrituras, embed_calls, renombrado, counters,
                   resultado>>
    /\ UNCHANGED textos

\* Variant of the build step that goes on to publish when there are no chunks.
main_build_vacio ==
    /\ pc = "build"
    /\ db_final' = IF DIR_DB_FAISS.exists
                   THEN add_documents(DIR_DB_FAISS.chunks, chunks_nuevos)
                   ELSE from_documents(chunks_nuevos)
    /\ embed_calls' = Cardinality(chunks_nuevos)
    /\ pc' = "save"
    /\ UNCHANGED <<falla, resultado, registro_archivos, archivos_a_procesar,
                   chunks_nuevos, cargados>>
    /\ UNCHANGED <<fsvars, pre, escrituras, renombrado, limpiado, counters>>
    /\ UNCHANGED textos

\* lines 104-114: extend the published index, or build a new one, or return
\* when there are no chunks.  load_local raises on a directory that lacks a
\* part of the index; embedding a chunk may raise.
main_build ==
    /\ pc = "build"
    /\ IF DIR_DB_FAISS.exists /\ chunks_nuevos # {}
       THEN IF ~DIR_DB_FAISS.complete
            THEN Raise("load") /\ UNCHANGED <<locals, embed_calls>>
            ELSE \/ /\ db_final' = add_documents(DIR_DB_FAISS.chunks, chunks_nuevos)
                    /\ embed_calls' = Cardinality(chunks_nuevos)
                    /\ pc' = "save"
                    /\ UNCHANGED <<falla, resultado, registro_archivos,
                                   archivos_a_procesar, chunks_nuevos, cargados>>
                 \/ /\ \E n \in 0..(Cardinality(chunks_nuevos) - 1) :
                          embed_calls' = n
                    /\ Raise("embedding")
                    /\ UNCHANGED locals
       ELSE IF chunks_nuevos # {}
            THEN \/ /\ db_final' = from_documents(chunks_nuevos)
                    /\ embed_calls' = Cardinality(chunks_nuevos)
                    /\ pc' = "save"
                    /\ UNCHANGED <<falla, resultado, registro_archivos,
                                   archivos_a_procesar, chunks_nuevos, cargados>>
                 \/ /\ \E n \in 0..(Cardinality(chunks_nuevos) - 1) :
                          embed_calls' = n
                    /\ Raise("embedding")
                    /\ UNCHANGED locals
            ELSE Return("nochunks") /\ UNCHANGED <<embed_calls, falla>>
    /\ UNCHANGED <<fsvars, pre, escrituras, renombrado, limpiado, counters>>
    /\ UNCHANGED textos

\* line 118: db_final.save_local(DIR_DB_TEMP); a failed write leaves no
\* directory or a directory with a part of the index.
main_save_local ==
    /\ pc = "save"
    /\ \/ /\ DIR_DB_TEMP' = IndexDir(db_final)
          /\ pc' = "rmold"
          /\ UNCHANGED <<falla, resultado>>
       \/ /\ DIR_DB_TEMP' \in {DIR_DB_TEMP, PartialDir(db_final)}
          /\ Raise("staging")
    /\ UNCHANGED <<DIR_DOCS, DIR_DB_FAISS, ARCHIVO_REGISTRO, locals, pre,
                   escrituras, embed_calls, renombrado, limpiado, counters>>
    /\ UNCHANGED textos

\* Variant of the removal of the old index that saves the record before
\* the swap (steps 4 and 5 of main() in the wrong order).
main_rmold_guardando ==
    /\ pc = "rmold"
    /\ ARCHIVO_REGISTRO' = JsonFile(registro_archivos)
    /\ escrituras' = escrituras + 1
    /\ IF DIR_DB_FAISS.exists
       THEN \/ /\ DIR_DB_FAISS' = NoDir
               /\ pc' = "rename"
               /\ UNCHANGED <<falla, resultado>>
            \/ /\ DIR_DB_FAISS' \in {DIR_DB_FAISS, PartialDir(DIR_DB_FAISS.chunks)}
               /\ Raise("swap_rmtree")
       ELSE /\ pc' = "rename"
            /\ UNCHANGED <<DIR_DB_FAISS, falla, resultado>>
    /\ UNCHANGED <<DIR_DOCS, DIR_DB_TEMP, locals, pre, embed_calls,
                   renombrado, limpiado, counters>>
    /\ UNCHANGED textos

\* lines 123-124: shutil.rmtree(DIR_DB_FAISS); a failed removal leaves the
\* directory whole or with some of its files deleted.
main_rmold ==
    /\ pc = "rmold"
    /\ IF DIR_DB_FAISS.exists
       THEN \/ /\ DIR_DB_FAISS' = NoDir
               /\ pc' = "rename"
               /\ UNCHANGED <<falla, resultado>>
            \/ /\ DIR_DB_FAISS' \in {DIR_DB_FAISS, PartialDir(DIR_DB_FAISS.chunks)}
               /\ Raise("swap_rmtree")
       ELSE /\ pc' = "rename"
            /\ UNCHANGED <<DIR_DB_FAISS, falla, resultado>>
    /\ UNCHANGED <<DIR_DOCS, DIR_DB_TEMP, ARCHIVO_REGISTRO, locals, pre,
                   escrituras, embed_calls, renombrado, limpiado, counters>>
    /\ UNCHANGED textos

\* line 125: os.rename(DIR_DB_TEMP, DIR_DB_FAISS)
main_rename ==
    /\ pc = "rename"
    /\ \/ /\ DIR_DB_FAISS' = DIR_DB_TEMP
          /\ DIR_DB_TEMP' = NoDir
          /\ renombrado' = TRUE
          /\ pc' = "guardar"
          /\ UNCHANGED <<falla, resultado>>
       \/ /\ Raise("swap_rename")
          /\ UNCHANGED <<DIR_DB_FAISS, DIR_DB_TEMP, renombrado>>
    /\ UNCHANGED <<DIR_DOCS, ARCHIVO_REGISTRO, locals, pre, escrituras,
                   embed_calls, limpiado, counters>>
    /\ UNCHANGED textos

\* guardar_registro_archivos(registro), lines 33-36: open(..., 'w') may
\* raise and leave the file alone; it truncates the file, so a json.dump
\* that fails afterwards leaves a file that is not JSON.
guardar_registro_archivos(registro) ==
    \/ /\ ARCHIVO_REGISTRO' = JsonFile(registro)
       /\ escrituras' = escrituras + 1
       /\ Return("success")
       /\ UNCHANGED falla
    \/ /\ ARCHIVO_REGISTRO' = ARCHIVO_REGISTRO
       /\ UNCHANGED <<escrituras, locals>>
       /\ Raise("persist")
    \/ /\ ARCHIVO_REGISTRO' = BadFile
       /\ escrituras' = escrituras + 1
       /\ Raise("persist")
       /\ UNCHANGED locals

\* line 128: guardar_registro_archivos(registro_archivos), then return
main_guardar ==
    /\ pc = "guardar"
    /\ guardar_registro_archivos(registro_archivos)
    /\ UNCHANGED <<DIR_DOCS, DIR_DB_FAISS, DIR_DB_TEMP, pre, embed_calls,
                   renombrado, limpiado, counters>>
    /\ UNCHANGED textos

\* Variant of the handler that saves the record on the way out
\* (a finally-style save).
main_except_guardando ==
    /\ pc = "except"
    /\ IF DIR_DB_TEMP.exists
       THEN DIR_DB_TEMP' = NoDir /\ limpiado' = TRUE
       ELSE UNCHANGED <<DIR_DB_TEMP, limpiado>>
    /\ ARCHIVO_REGISTRO' = JsonFile(registro_archivos)
    /\ escrituras' = escrituras + 1
    /\ Return("error")
    /\ UNCHANGED <<DIR_DOCS, DIR_DB_FAISS, pre, falla, embed_calls,
                   renombrado, counters>>
    /\ UNCHANGED textos

\* Variant of the handler without the cleanup of lines 136-137.
main_except_sin_limpiar ==
    /\ pc = "except"
    /\ Return("error")
    /\ UNCHANGED <<fsvars, ghosts, counters>>
    /\ UNCHANGED textos

\* lines 132-137: except Exception: log, remove the staging directory
main_except ==
    /\ pc = "except"
    /\ IF DIR_DB_TEMP.exists
       THEN DIR_DB_TEMP' = NoDir /\ limpiado' = TRUE
       ELSE UNCHANGED <<DIR_DB_TEMP, limpiado>>
    /\ Return("error")
    /\ UNCHANGED <<DIR_DOCS, DIR_DB_FAISS, ARCHIVO_REGISTRO, pre, falla,
                   escrituras, embed_calls, renombrado, counters>>
    /\ UNCHANGED textos

\* ---- the environment ----

\* The process is killed in the middle of a run (spec section 5): only the
\* filesystem keeps what the run did.
Kill ==
    /\ pc # "idle"
    /\ Return("killed")
    /\ interrumpido' = TRUE
    /\ pre' = NoPre
    /\ falla' = "none"
    /\ escrituras' = 0
    /\ embed_calls' = 0
    /\ renombrado' = FALSE
    /\ limpiado' = FALSE
    /\ UNCHANGED <<fsvars, runs, edits, editado, fallo_carga>>
    /\ UNCHANGED textos

\* Between runs a PDF is created or rewritten (its mtime becomes t) ...
Touch(p, t) ==
    /\ pc = "idle"
    /\ edits < MaxEdits
    /\ DIR_DOCS.exists
    /\ IF p \in DOMAIN DIR_DOCS.files THEN DIR_DOCS.files[p] # t ELSE TRUE
    /\ DIR_DOCS' = DocsDir(DictSet(DIR_DOCS.files, p, t))
    /\ edits' = edits + 1
    /\ editado' = TRUE
    /\ UNCHANGED <<DIR_DB_FAISS, DIR_DB_TEMP, ARCHIVO_REGISTRO, pc, locals,
                   ghosts, resultado, runs, interrumpido, fallo_carga>>
    /\ UNCHANGED textos

\* ... or deleted
Delete(p) ==
    /\ pc = "idle"
    /\ edits < MaxEdits
    /\ DIR_DOCS.exists
    /\ p \in DOMAIN DIR_DOCS.files
    /\ DIR_DOCS' = DocsDir(DictDel(DIR_DOCS.files, p))
    /\ edits' = edits + 1
    /\ editado' = TRUE
    /\ UNCHANGED <<DIR_DB_FAISS, DIR_DB_TEMP, ARCHIVO_REGISTRO, pc, locals,
                   ghosts, resultado, runs, interrumpido, fallo_carga>>
    /\ UNCHANGED textos

\* ... or the documents directory is removed with everything in it
RemoveDocs ==
    /\ pc = "idle"
    /\ edits < MaxEdits
    /\ DIR_DOCS.exists
    /\ DIR_DOCS' = NoDocs
    /\ edits' = edits + 1
    /\ editado' = TRUE
    /\ UNCHANGED <<DIR_DB_FAISS, DIR_DB_TEMP, ARCHIVO_REGISTRO, pc, locals,
                   ghosts, resultado, runs, interrumpido, fallo_carga>>
    /\ UNCHANGED textos

main ==
    \/ main_cargar
    \/ main_obtener
    \/ main_check
    \/ main_lote
    \/ main_embeddings
    \/ main_rmtemp
    \/ main_build
    \/ main_save_local
    \/ main_rmold
    \/ main_rename
    \/ main_guardar
    \/ main_except

Next ==
    \/ main
    \/ Kill
    \/ \E p \in Paths, t \in Times : Touch(p, t)
    \/ \E p \in Paths : Delete(p)
    \/ RemoveDocs

Spec == Init /\ [][Next]_vars

\* ---- main() of src/src/procesar_docs.py, the full rebuild ----
\* Its locals docs, chunks and db are held in cargados, chunks_nuevos and
\* db_final.  Nothing in this main() catches an exception.

\* cargar_documentos(directorio_docs), lines 13-22: the PDFs of the directory
cargar_documentos(docs) == DOMAIN docs.files

\* dividir_texto(documentos), lines 24-31: the chunks of the loaded files
dividir_texto(documentos, docs) ==
    {<<ruta, docs.files[ruta]>> : ruta \in documentos}

\* crear_base_vectorial(chunks), lines 33-37
crear_base_vectorial(chunks) == from_documents(chunks)

\* lines 47-50: return when the directory is missing or holds no PDF
docs_main_inicio ==
    /\ pc = "idle"
    /\ runs < MaxRuns
    /\ runs' = runs + 1
    /\ editado' = FALSE
    /\ pre' = [faiss |-> DIR_DB_FAISS, temp |-> DIR_DB_TEMP,
               registro |-> ARCHIVO_REGISTRO, previo |-> resultado,
               editado |-> editado]
    /\ falla' = "none"
    /\ escrituras' = 0
    /\ embed_calls' = 0
    /\ renombrado' = FALSE
    /\ limpiado' = FALSE
    /\ IF ~DIR_DOCS.exists \/ DOMAIN DIR_DOCS.files = {}
       THEN Return("sin_docs")
       ELSE pc' = "d_cargar" /\ UNCHANGED <<resultado, locals>>
    /\ UNCHANGED <<fsvars, edits, interrumpido, fallo_carga>>
    /\ UNCHANGED textos

\* lines 54-57: docs = cargar_documentos(dir_docs); a PDF that fails to load
\* raises out of main().
docs_main_cargar ==
    /\ pc = "d_cargar"
    /\ \/ Return("fallo_docs")
       \/ IF cargar_documentos(DIR_DOCS) = {}
          THEN Return("sin_contenido")
          ELSE /\ cargados' = cargar_documentos(DIR_DOCS)
               /\ pc' = "d_crear"
               /\ UNCHANGED <<resultado, registro_archivos,
                              archivos_a_procesar, chunks_nuevos, db_final>>
    /\ UNCHANGED <<fsvars, ghosts, counters>>
    /\ UNCHANGED textos

\* lines 61-65: chunks = dividir_texto(docs); db = crear_base_vectorial(chunks)
docs_main_crear ==
    /\ pc = "d_crear"
    /\ \/ /\ chunks_nuevos' = dividir_texto(cargados, DIR_DOCS)
          /\ db_final' = crear_base_vectorial(dividir_texto(cargados, DIR_DOCS))
          /\ embed_calls' = Cardinality(dividir_texto(cargados, DIR_DOCS))
          /\ pc' = "d_save_faiss"
          /\ UNCHANGED <<resultado, registro_archivos, archivos_a_procesar,
                         cargados>>
       \/ /\ \E n \in 0..(Cardinality(cargados) - 1) : embed_calls' = n
          /\ Return("fallo_docs")
    /\ UNCHANGED <<fsvars, pre, falla, escrituras, renombrado, limpiado,
                   counters>>
    /\ UNCHANGED textos

\* line 66, db.save_local(ruta_db_local), first file: index.faiss is written
\* into the published directory itself, next to whatever index.pkl is there.
docs_main_save_faiss ==
    /\ pc = "d_save_faiss"
    /\ \/ /\ DIR_DB_FAISS' = PartialDir(db_final)
          /\ pc' = "d_save_pkl"
          /\ UNCHANGED <<resultado, locals>>
       \/ /\ DIR_DB_FAISS' \in {DIR_DB_FAISS, PartialDir(db_final)}
          /\ Return("fallo_docs")
    /\ UNCHANGED <<DIR_DOCS, DIR_DB_TEMP, ARCHIVO_REGISTRO, ghosts, counters>>
    /\ UNCHANGED textos

\* line 66, second file: index.pkl; then main() returns (line 68).
docs_main_save_pkl ==
    /\ pc = "d_save_pkl"
    /\ \/ /\ DIR_DB_FAISS' = IndexDir(db_final)
          /\ Return("completo")
       \/ /\ UNCHANGED DIR_DB_FAISS
          /\ Return("fallo_docs")
    /\ UNCHANGED <<DIR_DOCS, DIR_DB_TEMP, ARCHIVO_REGISTRO, ghosts, counters>>
    /\ UNCHANGED textos

docs_main ==
    \/ docs_main_inicio
    \/ docs_main_cargar
    \/ docs_main_crear
    \/ docs_main_save_faiss
    \/ docs_main_save_pkl

\* Both ingestion entry points of the repository.
NextEntradas ==
    \/ Next
    \/ docs_main

SpecEntradas == Init /\ [][NextEntradas]_vars

TypeOK ==
    /\ DIR_DOCS \in {NoDocs} \cup {DocsDir(d) : d \in Dicts}
    /\ DIR_DB_FAISS.chunks \subseteq Chunks
    /\ DIR_DB_TEMP.chunks \subseteq Chunks
    /\ fallo_carga \in BOOLEAN
    /\ paginas \in Seq(Texts)
    /\ \A k \in 1..Len(trozos) :
          /\ trozos[k].page \in 1..Len(paginas)
          /\ trozos[k].page_content \in Seq(Alphabet)
    /\ ARCHIVO_REGISTRO.kind \in {"absent", "ok", "bad"}
    /\ registro_archivos \in Dicts
    /\ archivos_a_procesar \subseteq Paths
    /\ chunks_nuevos \subseteq Chunks
    /\ runs \in 0..MaxRuns
    /\ edits \in 0..MaxEdits

\* ---- the selection function on its own ----

\* Every documents directory and every record obtener_archivos_a_procesar
\* can be called with: the state of main() just before line 86.
InitObtener ==
    /\ DIR_DOCS \in {NoDocs} \cup {DocsDir(d) : d \in Dicts}
    /\ \E d \in Dicts :
          /\ registro_archivos = d
          /\ ARCHIVO_REGISTRO \in {JsonFile(d)} \cup
                                  (IF d = EmptyDict THEN {NoFile} ELSE {})
    /\ DIR_DB_FAISS \in {NoDir, IndexDir({})}
    /\ DIR_DB_TEMP = NoDir
    /\ pc = "obtener"
    /\ archivos_a_procesar = {}
    /\ chunks_nuevos = {}
    /\ db_final = {}
    /\ cargados = {}
    /\ pre = [faiss |-> DIR_DB_FAISS, temp |-> NoDir,
              registro |-> ARCHIVO_REGISTRO, previo |-> "none",
              editado |-> FALSE]
    /\ falla = "none"
    /\ resultado = "none"
    /\ escrituras = 0
    /\ embed_calls = 0
    /\ renombrado = FALSE
    /\ limpiado = FALSE
    /\ runs = 1
    /\ edits = 0
    /\ editado = FALSE
    /\ interrumpido = FALSE
    /\ fallo_carga = FALSE
    /\ paginas = << >>
    /\ trozos = << >>

NextObtener ==
    \/ main_obtener
    \/ main_check

SpecObtener == InitObtener /\ [][NextObtener]_vars

\* ---- the text splitter ----
\* RecursiveCharacterTextSplitter(chunk_size, chunk_overlap, length_function=len)
\* with its defaults: separators ["\n\n", "\n", " ", ""], keep_separator=True,
\* strip_whitespace=True.  A text is a sequence of characters.
separators == << <<"\n", "\n">>, <<"\n">>, <<" ">>, << >> >>

Drop(s, n) == SubSeq(s, n + 1, Len(s))

RECURSIVE Concat(_)
Concat(ss) == IF ss = << >> THEN << >> ELSE Head(ss) \o Concat(Tail(ss))

\* Position of the first occurrence of sep in text, 0 when there is none.
FirstMatch(text, sep) ==
    LET is == {i \in 1..Len(text) :
                  /\ i + Len(sep) - 1 <= Len(text)
                  /\ SubSeq(text, i, i + Len(sep) - 1) = sep}
    IN  IF is = {} THEN 0 ELSE CHOOSE i \in is : \A j \in is : i <= j

\* re.split(sep, text): the texts between the occurrences of sep.
RECURSIVE re_split(_, _)
re_split(text, sep) ==
    LET i == FirstMatch(text, sep)
    IN  IF i = 0 THEN <<text>>
        ELSE <<SubSeq(text, 1, i - 1)>>
                 \o re_split(Drop(text, i + Len(sep) - 1), sep)

\* _split_text_with_regex with keep_separator=True: each separator is kept
\* at the start of the piece that follows it; empty pieces are dropped.
split_text_with_regex(text, sep) ==
    IF sep = << >>
    THEN [i \in 1..Len(text) |-> <<text[i]>>]
    ELSE LET ts == re_split(text, sep)
             splits == [k \in 1..Len(ts) |->
                           IF k = 1 THEN ts[1] ELSE sep \o ts[k]]
         IN  SelectSeq(splits, LAMBDA s : s # << >>)

RECURSIVE lstrip(_)
lstrip(t) == IF t # << >> /\ Head(t) \in Whitespace THEN lstrip(Tail(t)) ELSE t

RECURSIVE rstrip(_)
rstrip(t) ==
    IF t # << >> /\ t[Len(t)] \in Whitespace
    THEN rstrip(SubSeq(t, 1, Len(t) - 1))
    ELSE t

\* _join_docs with separator "": the joined and stripped text, as a list of
\* one document, or no document when nothing is left.
join_docs(docs) ==
    LET text == lstrip(rstrip(Concat(docs)))
    IN  IF text = << >> THEN << >> ELSE <<text>>

\* The while loop of _merge_splits: drop pieces from the front of the
\* current document until at most chunk_overlap characters are kept and the
\* next piece of length l fits.
RECURSIVE pop_overlap(_, _)
pop_overlap(current_doc, l) ==
    LET total == Len(Concat(current_doc))
    IN  IF total > ChunkOverlap \/ (total + l > ChunkSize /\ total > 0)
        THEN pop_overlap(Tail(current_doc), l)
        ELSE current_doc

RECURSIVE merge_loop(_, _, _)
merge_loop(splits, docs, current_doc) ==
    IF splits = << >>
    THEN docs \o join_docs(current_doc)
    ELSE LET d == Head(splits)
             full == /\ Len(Concat(current_doc)) + Len(d) > ChunkSize
                     /\ current_doc # << >>
         IN  merge_loop(Tail(splits),
                        IF full THEN docs \o join_docs(current_doc) ELSE docs,
                        Append(IF full THEN pop_overlap(current_doc, Len(d))
                               ELSE current_doc, d))

\* _merge_splits(splits, separator="")
merge_splits(splits) == merge_loop(splits, << >>, << >>)

\* The first separator of the list that is "" or occurs in the text.
SepIndex(text, seps) ==
    CHOOSE i \in 1..Len(seps) :
        /\ seps[i] = << >> \/ FirstMatch(text, seps[i]) # 0
        /\ \A j \in 1..(i - 1) :
               seps[j] # << >> /\ FirstMatch(text, seps[j]) = 0

RECURSIVE split_text_rec(_, _)
RECURSIVE split_loop(_, _, _, _)
\* _split_text(text, separators)
split_text_rec(text, seps) ==
    LET i == SepIndex(text, seps)
        new_separators == IF seps[i] = << >> THEN << >>
                          ELSE SubSeq(seps, i + 1, Len(seps))
    IN  split_loop(split_text_with_regex(text, seps[i]), << >>, << >>,
                   new_separators)

\* The loop of _split_text over the pieces: short pieces are collected and
\* merged, a piece of chunk_size or more is split with the next separators.
split_loop(splits, good_splits, final_chunks, new_separators) ==
    IF splits = << >>
    THEN final_chunks \o (IF good_splits # << >>
                          THEN merge_splits(good_splits) ELSE << >>)
    ELSE LET s == Head(splits)
         IN  IF Len(s) < ChunkSize
             THEN split_loop(Tail(splits), Append(good_splits, s),
                             final_chunks, new_separators)
             ELSE split_loop(Tail(splits), << >>,
                     (IF good_splits # << >>
                      THEN final_chunks \o merge_splits(good_splits)
                      ELSE final_chunks)
                     \o (IF new_separators = << >> THEN <<s>>
                         ELSE split_text_rec(s, new_separators)),
                     new_separators)

split_text(text) == split_text_rec(text, separators)

\* split_documents: every page is split on its own, and each chunk carries
\* the page it was cut from.
split_documents(documentos) ==
    Concat([i \in 1..Len(documentos) |->
               LET cs == split_text(documentos[i])
               IN  [k \in 1..Len(cs) |-> [page_content |-> cs[k], page |-> i]]])

\* The splitter, applied to one or more page texts: line 75 of
\* procesar_lote_documentos, line 31 of dividir_texto.
InitChunker ==
    /\ Init
    /\ DIR_DOCS = NoDocs

CargarPaginas ==
    /\ pc = "idle"
    /\ paginas = << >>
    /\ \E n \in 1..MaxPages : paginas' \in [1..n -> Texts]
    /\ pc' = "dividir"
    /\ UNCHANGED <<fsvars, locals, ghosts, counters, resultado, trozos>>

dividir ==
    /\ pc = "dividir"
    /\ trozos' = split_documents(paginas)
    /\ pc' = "dividido"
    /\ UNCHANGED <<fsvars, locals, ghosts, counters, resultado, paginas>>

NextChunker ==
    \/ CargarPaginas
    \/ dividir

SpecChunker == InitChunker /\ [][NextChunker]_vars

\* The chunks cut from page i, in order.
TrozosDe(i) ==
    LET cs == SelectSeq(trozos, LAMBDA c : c.page = i)
    IN  [k \in 1..Len(cs) |-> cs[k].page_content]

\* t occurs in text as a run of consecutive characters.
EsSubtexto(t, text) ==
    \E i \in 1..(Len(text) + 1) :
        /\ i + Len(t) - 1 <= Len(text)
        /\ SubSeq(text, i, i + Len(t) - 1) = t

\* The chunks of cs joined, each one after the first without its first
\* chunk_overlap characters.
RECURSIVE Reconstruir(_)
Reconstruir(cs) ==
    IF cs = << >> THEN << >>
    ELSE IF Len(cs) = 1 THEN cs[1]
    ELSE Reconstruir(SubSeq(cs, 1, Len(cs) - 1))
             \o Drop(cs[Len(cs)], ChunkOverlap)

\* ---- properties ----

\* The record main() loaded at line 85 of the current run.
RegistroCargado == pre.registro.data

\* Positions of main() from which the swap (lines 123-125) has not begun.
AntesDelSwap == {"obtener", "check", "lote", "embeddings", "rmtemp", "build",
                 "save", "rmold"}

\* C1: a run in which building or extending the index raised (the embedding
\* backend could not be set up, or a chunk failed to embed) leaves the
\* published index directory and the change-record file as they were when
\* the run started.
C1_EmbeddingFailureAtomic ==
    falla = "embedding" =>
        /\ DIR_DB_FAISS = pre.faiss
        /\ ARCHIVO_REGISTRO = pre.registro

\* A run that extended an existing index failed partway through the batch
\* and has ended.
C1_Witness ==
    /\ pc = "idle"
    /\ resultado = "error"
    /\ falla = "embedding"
    /\ pre.faiss.exists
    /\ pre.registro.kind = "ok"
    /\ embed_calls >= 1

\* C2: when the swap fails (rmtree of the old published directory or the
\* rename of the staging directory raises), the run ends with the previous
\* published index untouched, no staging directory, and the change record
\* not updated.
C2_SwapFailureLeavesPublished ==
    (pc = "idle" /\ resultado = "error"
        /\ falla \in {"swap_rmtree", "swap_rename"}) =>
        /\ DIR_DB_FAISS = pre.faiss
        /\ ~DIR_DB_TEMP.exists
        /\ ARCHIVO_REGISTRO = pre.registro

\* C3: at every point of a run before the swap begins, the published
\* directory holds a complete index or does not exist.
C3_PublishedCompleteBeforeSwap ==
    pc \in AntesDelSwap => (~DIR_DB_FAISS.exists \/ DIR_DB_FAISS.complete)

\* C4: when the write to the staging directory fails, the run ends with no
\* staging directory, the published directory unchanged and the change
\* record not written.
C4_StagingFailureCleanedUp ==
    (pc = "idle" /\ resultado = "error" /\ falla = "staging") =>
        /\ ~DIR_DB_TEMP.exists
        /\ DIR_DB_FAISS = pre.faiss
        /\ ARCHIVO_REGISTRO = pre.registro
        /\ escrituras = 0

\* The staging write failed after it had written a part of the index next to
\* an existing published index, and the run has ended.
C4_Witness ==
    /\ pc = "idle"
    /\ resultado = "error"
    /\ falla = "staging"
    /\ ~pre.temp.exists
    /\ limpiado
    /\ pre.faiss.exists

\* C5: within a run the change-record file is written at most once, and only
\* after the staging directory has been renamed into the published location.
C5_RecordWrittenOnceAfterPublish ==
    [][(ARCHIVO_REGISTRO' # ARCHIVO_REGISTRO \/ escrituras' > escrituras)
        => (renombrado /\ escrituras = 0 /\ escrituras' = 1)]_vars

\* A run has published and then written the record over an earlier one.
C5_Witness ==
    /\ pc = "idle"
    /\ resultado = "success"
    /\ escrituras = 1
    /\ pre.registro.kind = "ok"
    /\ ARCHIVO_REGISTRO # pre.registro

\* C6: after any sequence of completed runs, every path of the persisted
\* record has the version with the recorded modification time in the
\* published index.
C6_RecordedFilesAreIngested ==
    (pc = "idle" /\ ~interrumpido /\ ARCHIVO_REGISTRO.kind = "ok") =>
        \A p \in DOMAIN ARCHIVO_REGISTRO.data :
            /\ DIR_DB_FAISS.complete
            /\ <<p, ARCHIVO_REGISTRO.data[p]>> \in DIR_DB_FAISS.chunks

\* C7: a run that finds a staging directory left by an interrupted run
\* removes it before it writes staging output of its own, and on every path
\* on which it ends.
C7_LeftoverStagingRemoved ==
    pre.temp.exists =>
        /\ pc \in {"save", "rmold", "rename", "guardar"} => limpiado
        /\ (pc = "idle" /\ resultado # "killed") => limpiado

\* The run that follows a successful run with no edit of DIR_DOCS in between.
SegundaSinCambios ==
    /\ runs >= 2
    /\ pre.previo = "success"
    /\ ~pre.editado

\* C8: the run after a successful run, with no filesystem change in between,
\* selects no file, ends with the no-changes outcome, embeds nothing and
\* leaves the published index and the persisted record as they were.
C8_SecondRunIdempotent ==
    SegundaSinCambios =>
        /\ pc = "check" => archivos_a_procesar = {}
        /\ embed_calls = 0
        /\ DIR_DB_FAISS = pre.faiss
        /\ ARCHIVO_REGISTRO = pre.registro
        /\ pc \in {"obtener", "check", "idle"}
        /\ pc = "idle" => resultado \in {"nochanges", "killed"}

\* Such a second run has ended with the no-changes outcome over a published
\* index that holds chunks.
C8_Witness ==
    /\ SegundaSinCambios
    /\ pc = "idle"
    /\ resultado = "nochanges"
    /\ DIR_DB_FAISS.chunks # {}

\* C9: with a published index built from files {A, B} and only B modified,
\* a successful re-ingestion leaves exactly the chunks of A and the new
\* chunks of B in the index, B's new modification time in the record and
\* A's entry untouched.
C9_ReingestReplacesOldChunks ==
    \A A \in Paths, B \in Paths, a \in Times, b \in Times, b2 \in Times :
        ( /\ A # B
          /\ pc = "idle" /\ resultado = "success" /\ ~editado
          /\ pre.registro = JsonFile([x \in {A, B} |-> IF x = A THEN a ELSE b])
          /\ pre.faiss = IndexDir({<<A, a>>, <<B, b>>})
          /\ DIR_DOCS = DocsDir([x \in {A, B} |-> IF x = A THEN a ELSE b2])
          /\ b2 # b )
        => /\ DIR_DB_FAISS = IndexDir({<<A, a>>, <<B, b2>>})
           /\ ARCHIVO_REGISTRO =
                  JsonFile([x \in {A, B} |-> IF x = A THEN a ELSE b2])

\* C10: obtener_archivos_a_procesar returns exactly the files whose path is
\* not in the record or whose modification time is greater than the recorded
\* one.
C10_SelectsNewOrNewer ==
    pc = "check" =>
        archivos_a_procesar =
            {p \in DOMAIN DIR_DOCS.files :
                IF p \in DOMAIN RegistroCargado
                THEN DIR_DOCS.files[p] > RegistroCargado[p]
                ELSE TRUE}

\* The call left out a recorded file that is not newer than its record and
\* returned a recorded file that is.
C10_Witness ==
    /\ pc = "check"
    /\ \E p \in DOMAIN DIR_DOCS.files :
          /\ p \in DOMAIN RegistroCargado
          /\ DIR_DOCS.files[p] <= RegistroCargado[p]
          /\ p \notin archivos_a_procesar
    /\ \E p \in DOMAIN DIR_DOCS.files :
          /\ p \in DOMAIN RegistroCargado
          /\ DIR_DOCS.files[p] > RegistroCargado[p]
          /\ p \in archivos_a_procesar

\* C11: obtener_archivos_a_procesar sets the in-memory record entry of each
\* returned file to the file's modification time, leaves every other entry
\* (files not returned, paths no longer in DIR_DOCS) as loaded, and does not
\* touch processed_files.json.
C11_RecordUpdatedForReturnedOnly ==
    pc = "check" =>
        /\ registro_archivos =
               [x \in (DOMAIN RegistroCargado) \cup archivos_a_procesar |->
                    IF x \in archivos_a_procesar THEN DIR_DOCS.files[x]
                    ELSE RegistroCargado[x]]
        /\ ARCHIVO_REGISTRO = pre.registro

\* The call returned a recorded file and overwrote its entry, and left the
\* entry of a path that is no longer in DIR_DOCS.
C11_Witness ==
    /\ pc = "check"
    /\ \E p \in archivos_a_procesar :
          /\ p \in DOMAIN RegistroCargado
          /\ registro_archivos[p] # RegistroCargado[p]
    /\ \E q \in DOMAIN RegistroCargado :
          /\ q \notin DOMAIN DIR_DOCS.files
          /\ registro_archivos[q] = RegistroCargado[q]

\* C12: cargar_registro_archivos returns an empty record when the record
\* file does not exist and when it exists but cannot be parsed, and the run
\* does not fail in either case.
C12_UnreadableRecordIsEmpty ==
    (runs >= 1 /\ pre.registro.kind \in {"absent", "bad"}) =>
        /\ ~(pc = "idle" /\ resultado = "crash")
        /\ pc = "obtener" => registro_archivos = EmptyDict

\* Positions of main() after procesar_lote_documentos has returned.
DespuesDeLote == {"embeddings", "rmtemp", "build", "save", "rmold", "rename",
                  "guardar", "except"}

\* C13: a PDF of the batch that fails to load contributes no chunk and does
\* not abort the run; every file of the batch that loads is chunked, and
\* its chunks are embedded and published.
C13_LoadFailureSkipsOnlyThatFile ==
    /\ pc \in DespuesDeLote =>
          /\ cargados \subseteq archivos_a_procesar
          /\ chunks_nuevos = {<<p, DIR_DOCS.files[p]>> : p \in cargados}
    /\ pc = "embeddings" => falla = "none"
    /\ pc = "guardar" =>
          /\ embed_calls = Cardinality(chunks_nuevos)
          /\ DIR_DB_FAISS.complete
          /\ chunks_nuevos \subseteq DIR_DB_FAISS.chunks

\* A batch in which one file failed to load and another loaded has been
\* published.
C13_Witness ==
    /\ pc = "guardar"
    /\ cargados # {}
    /\ cargados # archivos_a_procesar
    /\ \A p \in archivos_a_procesar \ cargados :
          <<p, DIR_DOCS.files[p]>> \notin DIR_DB_FAISS.chunks

\* DIR_DOCS is missing or holds no PDF.
SinPdf == ~DIR_DOCS.exists \/ DOMAIN DIR_DOCS.files = {}

\* A run has returned or raised, and DIR_DOCS is as that run saw it.
RunEnded ==
    /\ pc = "idle"
    /\ runs >= 1
    /\ resultado \notin {"none", "killed"}
    /\ ~editado

\* C14 as stated: with the documents directory missing or without PDFs, a
\* run ends without changing the published index directory, the staging
\* directory or the change-record file.
C14_NoPdfNoMutation ==
    (RunEnded /\ SinPdf) =>
        /\ DIR_DB_FAISS = pre.faiss
        /\ DIR_DB_TEMP = pre.temp
        /\ ARCHIVO_REGISTRO = pre.registro

\* C14, amended: such a run embeds nothing and changes neither the published
\* index directory nor the change-record file; the incremental run removes a
\* staging directory left by an earlier run when no published index exists
\* and the record file loads, and the staging directory is otherwise left
\* as it was.
C14_NoPdfKeepsIndexAndRecord ==
    (RunEnded /\ SinPdf) =>
        /\ DIR_DB_FAISS = pre.faiss
        /\ ARCHIVO_REGISTRO = pre.registro
        /\ embed_calls = 0
        /\ escrituras = 0
        /\ DIR_DB_TEMP =
               IF /\ resultado # "sin_docs"
                  /\ ~pre.faiss.exists
                  /\ pre.registro.kind # "bad"
               THEN NoDir
               ELSE pre.temp

\* An incremental run over a directory without PDFs and without a published
\* index has removed a leftover staging directory.
C14_Witness ==
    /\ RunEnded
    /\ SinPdf
    /\ resultado = "nochunks"
    /\ pre.temp.exists
    /\ ~DIR_DB_TEMP.exists

\* C16: across both entry points the published index directory changes only
\* in the swap (lines 123-125 of procesar_docs2.py) of a fully written
\* staging directory, and never comes to hold a partly written index.
C16_PublishedChangesOnlyBySwap ==
    [][DIR_DB_FAISS' # DIR_DB_FAISS =>
          /\ pc \in {"rmold", "rename"}
          /\ DIR_DB_FAISS'.exists => DIR_DB_FAISS'.complete]_vars

\* C15: when saving the change record fails after the new index was
\* published, the run ends in error with the new index published and the
\* record file holding what it held before the run; the next run loads that
\* file and selects the same files again.
C15_RecordSaveFailureKeepsOldRecord ==
    (pc = "idle" /\ resultado = "error" /\ falla = "persist") =>
        /\ renombrado
        /\ DIR_DB_FAISS.complete
        /\ ARCHIVO_REGISTRO = pre.registro
        /\ ~cargar_registro_archivos(ARCHIVO_REGISTRO).raised
        /\ ~editado =>
              obtener_archivos_a_procesar(DIR_DOCS,
                  cargar_registro_archivos(ARCHIVO_REGISTRO).value).archivos
              = obtener_archivos_a_procesar(DIR_DOCS,
                  cargar_registro_archivos(pre.registro).value).archivos

\* C19: after an interrupted run -- in particular one killed after the old
\* published index was removed and before the staging directory was renamed
\* -- the published index of the next successful run holds the chunks of
\* every file listed in the persisted record (runs that skipped an
\* unreadable PDF set aside).
C19_RecoveryCoversRecordedFiles ==
    (/\ pc = "idle"
     /\ resultado = "success"
     /\ interrumpido
     /\ ~fallo_carga
     /\ ARCHIVO_REGISTRO.kind = "ok") =>
        /\ DIR_DB_FAISS.complete
        /\ \A p \in DOMAIN ARCHIVO_REGISTRO.data :
              <<p, ARCHIVO_REGISTRO.data[p]>> \in DIR_DB_FAISS.chunks

\* The run in progress (or just ended) started with a record that lists every
\* PDF of DIR_DOCS with its current mtime and with no published index.
RegistroAlDiaSinIndice ==
    /\ pre.registro.kind = "ok"
    /\ ~pre.faiss.exists
    /\ ~editado
    /\ DIR_DOCS.exists
    /\ \A p \in DOMAIN DIR_DOCS.files :
          /\ p \in DOMAIN pre.registro.data
          /\ pre.registro.data[p] = DIR_DOCS.files[p]

\* C20: a run that starts with every PDF recorded at its current mtime and
\* no published index selects no file, produces no chunk, never reaches the
\* staging write or the swap, and ends leaving the index absent and the
\* record file unchanged -- so the next run starts from the same situation.
C20_RecordedButUnpublishedNotRebuilt ==
    RegistroAlDiaSinIndice =>
        /\ archivos_a_procesar = {}
        /\ chunks_nuevos = {}
        /\ embed_calls = 0
        /\ pc \notin {"save", "rmold", "rename", "guardar"}
        /\ ~DIR_DB_FAISS.exists
        /\ ARCHIVO_REGISTRO = pre.registro
        /\ pc = "idle" => resultado \in {"nochunks", "error"}

\* Such a run, over a non-empty record, has ended with "no chunks".
C20_Witness ==
    /\ RegistroAlDiaSinIndice
    /\ DOMAIN DIR_DOCS.files # {}
    /\ pc = "idle"
    /\ resultado = "nochunks"
    /\ ~DIR_DB_FAISS.exists

\* C17: for every page text longer than chunk_size, every chunk has length at
\* most chunk_size, each chunk ends with the chunk_overlap characters the
\* next one starts with, and joining the chunks without the repeated
\* characters gives back the page text.
C17_ChunksOverlapAndReconstruct ==
    pc = "dividido" =>
        \A i \in 1..Len(paginas) :
            Len(paginas[i]) > ChunkSize =>
                LET cs == TrozosDe(i)
                IN  /\ \A k \in 1..Len(cs) : Len(cs[k]) <= ChunkSize
                    /\ \A k \in 1..(Len(cs) - 1) :
                          /\ Len(cs[k]) >= ChunkOverlap
                          /\ Len(cs[k + 1]) >= ChunkOverlap
                          /\ Drop(cs[k], Len(cs[k]) - ChunkOverlap)
                                 = SubSeq(cs[k + 1], 1, ChunkOverlap)
                    /\ Reconstruir(cs) = paginas[i]

\* C18: a page text shorter than chunk_size gives exactly one chunk, equal
\* to the page text; an empty page text gives no chunk; and every chunk is
\* text of the one page it is attributed to.
C18_ShortPageIsOneChunk ==
    pc = "dividido" =>
        /\ \A i \in 1..Len(paginas) :
              /\ paginas[i] = << >> => TrozosDe(i) = << >>
              /\ (paginas[i] # << >> /\ Len(paginas[i]) < ChunkSize) =>
                     TrozosDe(i) = <<paginas[i]>>
        /\ \A k \in 1..Len(trozos) :
              /\ trozos[k].page \in 1..Len(paginas)
              /\ EsSubtexto(trozos[k].page_content, paginas[trozos[k].page])

\* The paths and times the persisted record holds (none when the file is
\* missing or cannot be parsed).
Registrado ==
    IF ARCHIVO_REGISTRO.kind = "ok" THEN ARCHIVO_REGISTRO.data ELSE EmptyDict

\* The chunks the published index held, when the run started, for the files
\* the record listed then.
ChunksRegistradosAntes ==
    {c \in pre.faiss.chunks :
        /\ pre.registro.kind = "ok"
        /\ c[1] \in DOMAIN pre.registro.data
        /\ pre.registro.data[c[1]] = c[2]}

\* C21: across any sequence of runs no path leaves the persisted record and
\* the time recorded for a path never decreases; and when a run ends, the
\* chunks the published index held for recorded files (also for files
\* deleted since) are still in it.
C21_RecordOnlyGrows ==
    [][/\ \A p \in DOMAIN Registrado :
             /\ p \in DOMAIN Registrado'
             /\ Registrado'[p] >= Registrado[p]
       /\ (pc # "idle" /\ pc' = "idle") =>
              ChunksRegistradosAntes \subseteq DIR_DB_FAISS'.chunks]_vars

====
